---- MODULE Spec2Model ----
(***************************************************************************)
(* ECDSA over short Weierstrass curves (task1/ecdsa.py): the curve         *)
(* membership test, the group law of ECPoint (__add__, __mul__), and the   *)
(* ECDSA object with keygen, sign and verify.                              *)
(*                                                                         *)
(* Integers are Python's unbounded integers; % is Python's % for a         *)
(* positive modulus (result in 0..m-1).  A message is represented by the   *)
(* integer e that int.from_bytes(sha256(message).digest()) yields for it:  *)
(* the hash is an external collaborator, and two messages are "the same"   *)
(* exactly when their digests are.                                         *)
(*                                                                         *)
(* A Python call either returns a value or raises; both outcomes are       *)
(* values here: [exc |-> "none", val |-> v] or [exc |-> <exception>, ...]. *)
(***************************************************************************)
EXTENDS Integers, Sequences, FiniteSets, TLC

VARIABLES curve,        \* the EllipticCurve shared by all objects
          private_key,  \* ECDSA.private_key: None or <<d>>
          public_key,   \* ECDSA.public_key: None or <<point>>
          pc,           \* "idle", or "sign" while sign is inside its while loop
          e,            \* sign's local e (digest of the message being signed)
          k,            \* sign's local k (the nonce drawn last)
          sig,          \* what the caller holds: the signature sign returned last under
                        \* the current key pair, with the e, k and d it was made from
          call,         \* the call made last: its name and arguments
          ret           \* what that call returned or raised; <<>> while pending

vars == <<curve, private_key, public_key, pc, e, k, sig, call, ret>>

-----------------------------------------------------------------------------
(* Bounds of the model. *)

\* message digests range over 0..MaxDigest (beyond every modelled n)
MaxDigest == 7

\* scalars handed to __mul__ range over -MaxScalar..MaxScalar
MaxScalar == 8

-----------------------------------------------------------------------------
(* EllipticCurve *)

\* Python's None, for the optional fields and the optional argument
None == <<>>

\* The curve parameters a caller hands to EllipticCurve(p, a, b, Gx, Gy, n, h):
\* p prime, 4a^3 + 27b^2 # 0 mod p, G on the curve, n prime and the order of G.
\*   y^2 = x^3 + 2x + 1 over F_5 : 7 points, h = 1, n = 7 > p
\*   y^2 = x^3 + x + 1  over F_7 : 5 points, h = 1, n = 5 < p
\*   y^2 = x^3 + 8x + 7 over F_11: 14 points, h = 2, n = 7 < p
Curves ==
    { [p |-> 5,  a |-> 2, b |-> 1, Gx |-> 0, Gy |-> 1, n |-> 7, h |-> 1],
      [p |-> 7,  a |-> 1, b |-> 1, Gx |-> 0, Gy |-> 1, n |-> 5, h |-> 1],
      [p |-> 11, a |-> 8, b |-> 7, Gx |-> 1, Gy |-> 4, n |-> 7, h |-> 2] }

\* ECPoint(curve, x, y, infinity=False)
ECPoint(x, y) == [infinity |-> FALSE, x |-> x, y |-> y]

\* ECPoint(curve, None, None, infinity=True); -1 stands for the None coordinate
Infinity == [infinity |-> TRUE, x |-> -1, y |-> -1]

\* curve.G
G(c) == ECPoint(c.Gx, c.Gy)

is_on_curve(c, point) ==
    IF point.infinity
    THEN TRUE
    ELSE (point.y * point.y - point.x * point.x * point.x
            - c.a * point.x - c.b) % c.p = 0

-----------------------------------------------------------------------------
(* Outcomes of a call, and pow(v, -1, m) *)

Returned(v) == [exc |-> "none", val |-> v]

Raised(name) == [exc |-> name, val |-> Infinity]

\* "return r, s" of sign
ReturnedPair(r, s) == [exc |-> "none", r |-> r, s |-> s]

\* "return self.private_key, self.public_key" of keygen
ReturnedKeys(d, Q) == [exc |-> "none", private_key |-> d, public_key |-> Q]

\* pow(v, -1, m) raises ValueError exactly when v has no inverse modulo m
Invertible(v, m) == \E i \in 0..(m - 1) : (v * i) % m = 1

\* pow(v, -1, m) when it returns
ModInv(v, m) == CHOOSE i \in 0..(m - 1) : (v * i) % m = 1

-----------------------------------------------------------------------------
(* ECPoint.__add__ and ECPoint.__mul__ *)

\* lines 38-49 of __add__: the slope, the new point and its on-curve assertion
SlopeSum(c, self, other) ==
    LET den == IF self.x = other.x THEN 2 * self.y ELSE other.x - self.x
        num == IF self.x = other.x
               THEN 3 * self.x * self.x + c.a
               ELSE other.y - self.y
    IN  IF ~Invertible(den, c.p)
        THEN Raised("ValueError")
        ELSE LET s     == (num * ModInv(den, c.p)) % c.p
                 x_r   == (s * s - self.x - other.x) % c.p
                 y_r   == (s * (self.x - x_r) - self.y) % c.p
                 point == ECPoint(x_r, y_r)
             IN  IF is_on_curve(c, point)
                 THEN Returned(point)
                 ELSE Raised("AssertionError")

\* __add__ with the inverse test written without "or self.y == 0"
ECPoint_add_NoTorsion(c, self, other) ==
    IF self.infinity THEN Returned(other)
    ELSE IF other.infinity THEN Returned(self)
    ELSE IF self.x = other.x /\ self.y # other.y
    THEN Returned(Infinity)
    ELSE SlopeSum(c, self, other)

ECPoint_add(c, self, other) ==
    IF self.infinity THEN Returned(other)
    ELSE IF other.infinity THEN Returned(self)
    ELSE IF self.x = other.x /\ (self.y # other.y \/ self.y = 0)
    THEN Returned(Infinity)
    ELSE SlopeSum(c, self, other)

\* the while loop of __mul__: one iteration per bit of scalar, lowest first
RECURSIVE MulLoop(_, _, _, _)
MulLoop(c, scalar, result, addend) ==
    IF scalar = 0
    THEN IF is_on_curve(c, result)
         THEN Returned(result)
         ELSE Raised("AssertionError")
    ELSE LET r1 == IF scalar % 2 = 1
                   THEN ECPoint_add(c, result, addend)
                   ELSE Returned(result)
         IN  IF r1.exc # "none" THEN r1
             ELSE LET a1 == ECPoint_add(c, addend, addend)
                  IN  IF a1.exc # "none" THEN a1
                      ELSE MulLoop(c, scalar \div 2, r1.val, a1.val)

\* __mul__ with the accumulator initialised to the point instead of Infinity
ECPoint_mul_BadInit(c, self, scalar) == MulLoop(c, scalar % c.n, self, self)

ECPoint_mul(c, self, scalar) == MulLoop(c, scalar % c.n, Infinity, self)

\* P + Q where P and Q are themselves outcomes of calls: the first exception
\* raised while evaluating the operands propagates
AddOutcomes(c, l, r) ==
    IF l.exc # "none" THEN l
    ELSE IF r.exc # "none" THEN r
    ELSE ECPoint_add(c, l.val, r.val)

-----------------------------------------------------------------------------
(* Inputs *)

FieldPoints(c) == { ECPoint(x, y) : x \in 0..(c.p - 1), y \in 0..(c.p - 1) }

\* every point that is_on_curve accepts, with coordinates in the field
CurvePoints(c) == { pt \in FieldPoints(c) : is_on_curve(c, pt) } \cup {Infinity}

Scalars == (0 - MaxScalar)..MaxScalar

Digests == 0..MaxDigest

\* the points j*G
Subgroup(c) == { ECPoint_mul(c, G(c), j).val : j \in 0..(c.n - 1) }

\* no signature returned yet
NoSig == [e |-> 0, k |-> 0, r |-> 0, s |-> 0, d |-> 0]

-----------------------------------------------------------------------------
(* ECDSA.keygen, ECDSA.sign, ECDSA.verify as functions of what they read *)

InvalidState == "ValueError: Private key not generated."

InvalidKey == "ValueError: Invalid public key generated."

\* random.randint(0, n-1) in place of keygen's draw
KeyRange_FromZero(c) == 0..(c.n - 1)

\* keygen's random.randint(1, self.curve.n - 1)
KeyRange(c) == 1..(c.n - 1)

\* sign's random.randint(1, self.curve.n - 1)
NonceRange(c) == 1..(c.n - 1)

\* keygen with random.randint(1, n-1) = d: the fields it leaves and its outcome.
\* Both assignments precede the check of the point at infinity; an exception
\* out of d * G leaves public_key as it was.
ECDSA_keygen(c, self_public_key, d) ==
    LET Q == ECPoint_mul(c, G(c), d)
    IN  [ private_key |-> <<d>>,
          public_key  |-> IF Q.exc = "none" THEN <<Q.val>> ELSE self_public_key,
          out         |-> IF Q.exc # "none" THEN Q
                          ELSE IF Q.val.infinity THEN Raised(InvalidKey)
                          ELSE ReturnedKeys(d, Q.val) ]

\* "R = k * G" of sign, for every curve and every nonce random.randint(1, n-1)
\* can return
NoncePoint == [c \in Curves |-> [kk \in NonceRange(c) |-> ECPoint_mul(c, G(c), kk)]]

\* the loop body with s = k * (e + d*r): the nonce not inverted
SignAttempt_NoInverse(c, d, ee, kk) ==
    LET R == NoncePoint[c][kk]
        r == R.val.x % c.n
        s == (kk * (ee + d * r)) % c.n
    IN  IF R.exc # "none" THEN [again |-> FALSE, out |-> R]
        ELSE IF R.val.infinity THEN [again |-> FALSE, out |-> Raised("TypeError")]
        ELSE IF r = 0 THEN [again |-> TRUE, out |-> ReturnedPair(0, 0)]
        ELSE IF s = 0 THEN [again |-> TRUE, out |-> ReturnedPair(r, 0)]
        ELSE [again |-> FALSE, out |-> ReturnedPair(r, s)]

\* the loop body with the test of s inverted: "if s != 0: continue"
SignAttempt_RetryOnGoodS(c, d, ee, kk) ==
    LET R == NoncePoint[c][kk]
        r == R.val.x % c.n
        s == (ModInv(kk, c.n) * (ee + d * r)) % c.n
    IN  IF R.exc # "none" THEN [again |-> FALSE, out |-> R]
        ELSE IF R.val.infinity THEN [again |-> FALSE, out |-> Raised("TypeError")]
        ELSE IF r = 0 THEN [again |-> TRUE, out |-> ReturnedPair(0, 0)]
        ELSE IF s # 0 THEN [again |-> TRUE, out |-> ReturnedPair(r, s)]
        ELSE [again |-> FALSE, out |-> ReturnedPair(r, s)]

\* One pass through the body of sign's while loop with random.randint = kk:
\* [again |-> TRUE] for each continue, else the outcome that ends sign.
SignAttempt(c, d, ee, kk) ==
    LET R == NoncePoint[c][kk]
    IN  IF R.exc # "none" THEN [again |-> FALSE, out |-> R]
        ELSE IF R.val.infinity               \* None % n
        THEN [again |-> FALSE, out |-> Raised("TypeError")]
        ELSE LET r == R.val.x % c.n
             IN  IF r = 0 THEN [again |-> TRUE, out |-> ReturnedPair(0, 0)]
                 ELSE IF ~Invertible(kk, c.n)
                 THEN [again |-> TRUE, out |-> ReturnedPair(r, 0)]
                 ELSE LET k_inv == ModInv(kk, c.n)
                          s     == (k_inv * (ee + d * r)) % c.n
                      IN  IF s = 0
                          THEN [again |-> TRUE, out |-> ReturnedPair(r, 0)]
                          ELSE [again |-> FALSE, out |-> ReturnedPair(r, s)]

\* lines 130-135 of verify: s_inv, u1, u2 and R = u1 * G + u2 * public_key,
\* for s invertible modulo n; key is None or <<point>>
RecomputedPoint(c, ee, r, s, key) ==
    LET s_inv == ModInv(s, c.n)
        u1    == (ee * s_inv) % c.n
        u2    == (r * s_inv) % c.n
        A     == ECPoint_mul(c, G(c), u1)
        B     == IF key = None                      \* int * None
                 THEN Raised("TypeError")
                 ELSE ECPoint_mul(c, key[1], u2)
    IN  AddOutcomes(c, A, B)

\* verify without the final comparison: any finite R is accepted
ECDSA_verify_NoCompare(c, self_public_key, ee, r, s, pk) ==
    LET key == IF pk = None THEN self_public_key ELSE pk
    IN  IF ~(1 <= r /\ r < c.n /\ 1 <= s /\ s < c.n) THEN Returned(FALSE)
        ELSE IF ~Invertible(s, c.n) THEN Returned(FALSE)
        ELSE LET R == RecomputedPoint(c, ee, r, s, key)
             IN  IF R.exc # "none" THEN R
                 ELSE Returned(~R.val.infinity)

\* verify with the range test of s off by one: 1 <= s < n - 1
ECDSA_verify_OffByOne(c, self_public_key, ee, r, s, pk) ==
    LET key == IF pk = None THEN self_public_key ELSE pk
    IN  IF ~(1 <= r /\ r < c.n /\ 1 <= s /\ s < c.n - 1) THEN Returned(FALSE)
        ELSE IF ~Invertible(s, c.n) THEN Returned(FALSE)
        ELSE LET R == RecomputedPoint(c, ee, r, s, key)
             IN  IF R.exc # "none" THEN R
                 ELSE IF R.val.infinity THEN Returned(FALSE)
                 ELSE Returned((R.val.x % c.n) = r)

\* verify(message, (r, s), public_key) on an object whose field public_key is
\* self_public_key; pk is the argument (None when omitted)
ECDSA_verify(c, self_public_key, ee, r, s, pk) ==
    LET key == IF pk = None THEN self_public_key ELSE pk
    IN  IF ~(1 <= r /\ r < c.n /\ 1 <= s /\ s < c.n) THEN Returned(FALSE)
        ELSE IF ~Invertible(s, c.n) THEN Returned(FALSE)
        ELSE LET R == RecomputedPoint(c, ee, r, s, key)
             IN  IF R.exc # "none" THEN R
                 ELSE IF R.val.infinity THEN Returned(FALSE)
                 ELSE Returned((R.val.x % c.n) = r)

-----------------------------------------------------------------------------
(* One ECDSA object: any sequence of keygen, sign and verify calls *)

NoCall == [op |-> "none", e |-> 0, r |-> 0, s |-> 0, pk |-> None]

Init ==
    /\ curve \in Curves
    /\ private_key = None
    /\ public_key = None
    /\ pc = "idle"
    /\ e = 0
    /\ k = 0
    /\ sig = NoSig
    /\ call = NoCall
    /\ ret = <<>>

Keygen ==
    /\ pc = "idle"
    /\ \E d \in KeyRange(curve) :
         LET after == ECDSA_keygen(curve, public_key, d)
         IN  /\ private_key' = after.private_key
             /\ public_key' = after.public_key
             /\ ret' = <<after.out>>
    /\ call' = [NoCall EXCEPT !.op = "keygen"]
    /\ sig' = NoSig
    /\ UNCHANGED <<curve, pc, e, k>>

\* sign with the key test made only after the first nonce is drawn
SignBegin_LateCheck ==
    /\ pc = "idle"
    /\ \E msg \in Digests :
         /\ call' = [NoCall EXCEPT !.op = "sign", !.e = msg]
         /\ IF private_key = None
            THEN /\ ret' = <<Raised(InvalidState)>>
                 /\ k' \in NonceRange(curve)
                 /\ UNCHANGED <<pc, e>>
            ELSE /\ ret' = <<>>
                 /\ pc' = "sign"
                 /\ e' = msg
                 /\ k' = k
    /\ UNCHANGED <<curve, private_key, public_key, sig>>

\* sign(message) up to its while loop
SignBegin ==
    /\ pc = "idle"
    /\ \E msg \in Digests :
         /\ call' = [NoCall EXCEPT !.op = "sign", !.e = msg]
         /\ IF private_key = None
            THEN /\ ret' = <<Raised(InvalidState)>>
                 /\ UNCHANGED <<pc, e>>
            ELSE /\ ret' = <<>>
                 /\ pc' = "sign"
                 /\ e' = msg
    /\ UNCHANGED <<curve, private_key, public_key, k, sig>>

\* one iteration of sign's while loop, random.randint(1, n-1) returning kk
SignIter(kk) ==
    /\ pc = "sign"
    /\ kk \in NonceRange(curve)
    /\ LET step == SignAttempt(curve, private_key[1], e, kk)
       IN  IF step.again
           THEN /\ k' = kk
                /\ UNCHANGED <<pc, e, sig, ret>>
           ELSE /\ ret' = <<step.out>>
                /\ pc' = "idle"
                /\ e' = 0
                /\ k' = 0
                /\ sig' = IF step.out.exc = "none"
                          THEN [e |-> e, k |-> kk, r |-> step.out.r,
                                s |-> step.out.s, d |-> private_key[1]]
                          ELSE sig
    /\ UNCHANGED <<curve, private_key, public_key, call>>

\* the public keys of the key pairs of this curve
PublicKeys(c) == { ECPoint_mul(c, G(c), d).val : d \in KeyRange(c) }

\* a message other than the one with digest ee
Altered(ee) == (ee + 1) % (MaxDigest + 1)

\* verify(message, signature[, public_key]) of the signature sign returned last,
\* with the message that was signed or an altered one, and with the public key
\* omitted or that of any key pair of the curve
Verify ==
    /\ pc = "idle"
    /\ \E msg \in {sig.e, Altered(sig.e)}, pk \in {None} \cup { <<Q>> : Q \in PublicKeys(curve) } :
         /\ call' = [op |-> "verify", e |-> msg, r |-> sig.r, s |-> sig.s, pk |-> pk]
         /\ ret' = <<ECDSA_verify(curve, public_key, msg, sig.r, sig.s, pk)>>
    /\ UNCHANGED <<curve, private_key, public_key, pc, e, k, sig>>

\* every value random.randint(1, n-1) can return on some modelled curve
Nonces == UNION { NonceRange(c) : c \in Curves }

Next == Keygen \/ SignBegin \/ (\E kk \in Nonces : SignIter(kk)) \/ Verify

Spec == Init /\ [][Next]_vars

\* The randomness source is fair: while sign keeps retrying, every nonce is
\* drawn again and again.
FairSpec == Spec /\ \A kk \in Nonces : WF_vars(SignIter(kk))

-----------------------------------------------------------------------------
(* verify called directly, on any well-typed input *)

\* verify reads the object's fields only when the argument is omitted (lines
\* 123-124), so an explicit public key is paired with a fresh object.
VerifyCalls(c, keyed) ==
    { [op |-> "verify", e |-> ee, r |-> r, s |-> s, pk |-> pk] :
        ee \in Digests, r \in (0 - 1)..(c.n + 1), s \in (0 - 1)..(c.n + 1),
        pk \in IF keyed THEN {None}
               ELSE {None, <<Infinity>>} \cup { <<Q>> : Q \in FieldPoints(c) } }

VerifyInit ==
    /\ curve \in Curves
    /\ \/ private_key = None /\ public_key = None
       \/ \E d \in KeyRange(curve) :
            /\ private_key = ECDSA_keygen(curve, None, d).private_key
            /\ public_key = ECDSA_keygen(curve, None, d).public_key
    /\ pc = "idle"
    /\ e = 0
    /\ k = 0
    /\ sig = NoSig
    /\ call \in VerifyCalls(curve, private_key # None)
    /\ ret = <<>>

VerifyCall ==
    /\ call.op = "verify"
    /\ ret = <<>>
    /\ ret' = <<ECDSA_verify(curve, public_key, call.e, call.r, call.s, call.pk)>>
    /\ UNCHANGED <<curve, private_key, public_key, pc, e, k, sig, call>>

SpecVerify == VerifyInit /\ [][VerifyCall]_vars

-----------------------------------------------------------------------------
(* Point arithmetic called directly: P + Q, and (k*P) + (m*P) beside        *)
(* ((k+m) mod n) * P, for every point that is_on_curve accepts              *)

PointCalls(c) ==
    { [op |-> "add", P |-> P, Q |-> Q, k |-> 0, m |-> 0] :
        P \in CurvePoints(c), Q \in CurvePoints(c) }
    \cup
    { [op |-> "mul_add", P |-> P, Q |-> Infinity, k |-> kk, m |-> mm] :
        P \in CurvePoints(c), kk \in Scalars, mm \in Scalars }

PointInit ==
    /\ curve \in Curves
    /\ private_key = None
    /\ public_key = None
    /\ pc = "idle"
    /\ e = 0
    /\ k = 0
    /\ sig = NoSig
    /\ call \in PointCalls(curve)
    /\ ret = <<>>

PointAdd ==
    /\ call.op = "add"
    /\ ret = <<>>
    /\ ret' = <<ECPoint_add(curve, call.P, call.Q)>>
    /\ UNCHANGED <<curve, private_key, public_key, pc, e, k, sig, call>>

PointMulAdd ==
    /\ call.op = "mul_add"
    /\ ret = <<>>
    /\ ret' = << AddOutcomes(curve, ECPoint_mul(curve, call.P, call.k),
                                    ECPoint_mul(curve, call.P, call.m)),
                 ECPoint_mul(curve, call.P, (call.k + call.m) % curve.n) >>
    /\ UNCHANGED <<curve, private_key, public_key, pc, e, k, sig, call>>

PointNext == PointAdd \/ PointMulAdd

SpecPoint == PointInit /\ [][PointNext]_vars

-----------------------------------------------------------------------------
(* Properties of the group law (SpecPoint) *)

\* -P: same x, y negated mod p
Neg(c, P) == IF P.infinity THEN Infinity ELSE ECPoint(P.x, (0 - P.y) % c.p)

AddReturned == call.op = "add" /\ ret # <<>>

\* C8: for all points P, Q of the curve (Infinity or affine, coordinates in
\* 0..p-1), P + Q raises nothing (no inverse of 0 mod p requested, on-curve
\* assertion not tripped) and returns Infinity or an affine point on the curve
\* with coordinates in 0..p-1; P + Infinity = P, Infinity + P = P and
\* P + (-P) = Infinity.
C8_AddClosed ==
    AddReturned =>
        /\ ret[1].exc = "none"
        /\ is_on_curve(curve, ret[1].val)
        /\ ret[1].val \in CurvePoints(curve)
        /\ (call.Q.infinity => ret[1].val = call.P)
        /\ (call.P.infinity => ret[1].val = call.Q)
        /\ (call.Q = Neg(curve, call.P) => ret[1].val = Infinity)

\* C8 happens: two affine points with different x add up to an affine point
C8_Witness ==
    /\ AddReturned
    /\ ~call.P.infinity /\ ~call.Q.infinity /\ call.P.x # call.Q.x
    /\ ret[1].exc = "none" /\ ~ret[1].val.infinity

MulAddReturned == call.op = "mul_add" /\ ret # <<>>

\* the small cases the tests name: 0*P, 1*P, 2*P = P+P, (P+P)+P = P+(P+P)
SmallCases(c, P) ==
    /\ ECPoint_mul(c, P, 0) = Returned(Infinity)
    /\ ECPoint_mul(c, P, 1) = Returned(P)
    /\ ECPoint_mul(c, P, 2) = ECPoint_add(c, P, P)
    /\ AddOutcomes(c, ECPoint_add(c, P, P), Returned(P))
         = AddOutcomes(c, Returned(P), ECPoint_add(c, P, P))

\* C4 as stated: for every point P of the curve and all scalars k, m,
\* (k*P) + (m*P) = ((k+m) mod n)*P, and the small cases hold.
C4_Original ==
    MulAddReturned =>
        /\ ret[1].exc = "none"
        /\ ret[1] = ret[2]
        /\ SmallCases(curve, call.P)

\* C4 amended: (k*P) + (m*P) = ((k+m) mod n)*P for every point P of the
\* subgroup generated by G (every point of the curve when h = 1); and for every
\* point P on the curve 0*P = Infinity, 1*P = P, 2*P = P+P, (P+P)+P = P+(P+P).
C4_Additive ==
    /\ (MulAddReturned /\ call.P \in Subgroup(curve)) =>
          /\ ret[1].exc = "none"
          /\ ret[1] = ret[2]
    /\ MulAddReturned => SmallCases(curve, call.P)

\* C4 happens: k + m wraps around n and both sides are the same affine point
C4_Witness ==
    /\ MulAddReturned
    /\ call.P \in Subgroup(curve) /\ ~call.P.infinity
    /\ call.k > 0 /\ call.m > 0 /\ call.k + call.m > curve.n
    /\ ret[1] = ret[2] /\ ~ret[1].val.infinity

-----------------------------------------------------------------------------
(* Properties of one ECDSA object (Spec, FairSpec) *)

\* verify has returned or raised on the signature held, made under the
\* object's current key, for the message that was signed
VerifiedOwnSignature ==
    /\ call.op = "verify" /\ ret # <<>>
    /\ sig # NoSig /\ private_key = <<sig.d>>
    /\ call.e = sig.e /\ call.r = sig.r /\ call.s = sig.s

\* C1: the signature sign(message) returns is accepted by verify(message, .)
\* with the object's own public key, and 1 <= r < n, 1 <= s < n.
C1_RoundTrip ==
    (VerifiedOwnSignature /\ call.pk \in {None, public_key}) =>
        /\ ret[1].exc = "none" /\ ret[1].val = TRUE
        /\ 1 <= sig.r /\ sig.r < curve.n
        /\ 1 <= sig.s /\ sig.s < curve.n

\* C1 happens: a digest beyond n signed and verified with the key omitted
C1_Witness ==
    /\ VerifiedOwnSignature /\ call.pk = None
    /\ sig.e >= curve.n
    /\ ret[1].exc = "none" /\ ret[1].val = TRUE

\* the private key d' with d' * G = Q
KeyOf(c, Q) == CHOOSE d \in KeyRange(c) : ECPoint_mul(c, G(c), d).val = Q

\* verify was given the public key of another key pair
VerifiedWrongKey ==
    /\ VerifiedOwnSignature
    /\ call.pk # None /\ call.pk # public_key

\* the private key whose public key makes verify recompute -(k*G)
MirrorKey(c, d, ee, r) == (0 - (2 * ee * ModInv(r, c.n) + d)) % c.n

\* the point verify recomputes has another x than k*G, the same modulo n
XCollision ==
    LET R  == RecomputedPoint(curve, call.e, call.r, call.s, call.pk).val
        kG == ECPoint_mul(curve, G(curve), sig.k).val
    IN  ~R.infinity /\ R.x # kG.x /\ R.x % curve.n = kG.x % curve.n

\* C3 as stated: verify(message, (r,s), Q') is false for every other key
\* pair (d', Q') with Q' # Q.
C3_Original ==
    VerifiedWrongKey => (ret[1].exc = "none" /\ ret[1].val = FALSE)

\* C3 amended: it is false for every other key pair (d', Q') with Q' # Q,
\* except d' = -(2e/r + d) mod n, and except when the x of u1*G + u2*Q'
\* differs from the x of k*G by a multiple of n.
C3_WrongKeyRejected ==
    ( /\ VerifiedWrongKey
      /\ KeyOf(curve, call.pk[1]) # MirrorKey(curve, sig.d, sig.e, sig.r)
      /\ ~XCollision )
    => (ret[1].exc = "none" /\ ret[1].val = FALSE)

\* C3 happens: another pair's public key is rejected
C3_Witness ==
    /\ VerifiedWrongKey
    /\ KeyOf(curve, call.pk[1]) # MirrorKey(curve, sig.d, sig.e, sig.r)
    /\ ~XCollision
    /\ ret[1].exc = "none" /\ ret[1].val = FALSE

\* C5: a sign call on an object without private key raises the invalid-state
\* error, draws no nonce, returns no signature and leaves both keys absent;
\* with a private key present sign never raises the invalid-state error.
C5_SignWithoutKey ==
    /\ [](ret = <<Raised(InvalidState)>> => (call.op = "sign" /\ private_key = None))
    /\ [][ (pc = "idle" /\ call'.op = "sign") =>
             IF private_key = None
             THEN /\ ret' = <<Raised(InvalidState)>>
                  /\ pc' = "idle" /\ k' = k /\ sig' = sig
                  /\ private_key' = None /\ public_key' = None
             ELSE ret' # <<Raised(InvalidState)>> ]_vars

\* C5 happens: sign has raised the invalid-state error
C5_Witness ==
    /\ call.op = "sign" /\ ret = <<Raised(InvalidState)>>
    /\ private_key = None /\ public_key = None /\ k = 0 /\ sig = NoSig

\* C6 as stated: once a keygen call has set private_key and public_key, no
\* later step of a keygen, sign or verify call changes either of them.
C6_SetOnce ==
    [][ private_key # None =>
          (private_key' = private_key /\ public_key' = public_key) ]_vars

RValues(c) ==
    { ECPoint_mul(c, G(c), kk).val.x % c.n : kk \in NonceRange(c) } \ {0}

\* some nonce ends the loop for this key and digest
SomeNonceReturns(c, d, ee) ==
    \E kk \in NonceRange(c) :
        LET step == SignAttempt(c, d, ee, kk)
        IN  ~step.again /\ step.out.exc = "none"

\* C9 as stated (its second form): for every stored d and every digest e at
\* least one nonce yields r # 0 and s # 0.
C9_Original ==
    pc = "sign" => SomeNonceReturns(curve, private_key[1], e)

\* C9 amended: under a fair randomness source sign returns a signature,
\* provided the nonces give at least two different nonzero values of r.
C9_SignTerminates ==
    (pc = "sign" /\ Cardinality(RValues(curve)) >= 2)
        ~> (pc = "idle" /\ call.op = "sign" /\ ret # <<>> /\ ret[1].exc = "none")

\* C9 happens: the loop has retried (a nonce was rejected) on such a curve
C9_Witness ==
    /\ pc = "sign" /\ k # 0
    /\ Cardinality(RValues(curve)) >= 2

-----------------------------------------------------------------------------
(* Properties of verify called directly *)

VerifyReturned == call.op = "verify" /\ ret # <<>>

\* C2 as stated: verify never raises; whatever the integers r and s and
\* whatever the public key (omitted with or without a generated key, the point
\* at infinity, a point on the curve or a point off it), it returns a boolean.
C2_VerifyNeverRaises ==
    VerifyReturned => (ret[1].exc = "none" /\ ret[1].val \in BOOLEAN)

\* the key verify uses: the argument, or the object's field when it is omitted
UsedKey == IF call.pk = None THEN public_key ELSE call.pk

InRange == 1 <= call.r /\ call.r < curve.n /\ 1 <= call.s /\ call.s < curve.n

\* verify of the same message and key with (r, n - s) in place of (r, s)
Flipped ==
    ECDSA_verify(curve, public_key, call.e, call.r, curve.n - call.s, call.pk)

\* C10 as stated: for every public key that is on the curve and every r, s in
\* 1..n-1, verify accepts (r, s) if and only if it accepts (r, n - s).
C10_Original ==
    (VerifyReturned /\ InRange /\ call.pk # None /\ is_on_curve(curve, call.pk[1]))
        => ((ret[1] = Returned(TRUE)) <=> (Flipped = Returned(TRUE)))

\* C10 amended: for every public key in the subgroup generated by G (every key
\* keygen produces is one) and every r, s in 1..n-1, verify returns for (r, n - s)
\* what it returns for (r, s), and n - s differs from s; so each signature sign
\* can return with the object's key has a second accepted form.
C10_Malleable ==
    /\ (VerifyReturned /\ InRange /\ UsedKey # None /\ UsedKey[1] \in Subgroup(curve))
          => /\ ret[1].exc = "none"
             /\ Flipped = ret[1]
             /\ curve.n - call.s # call.s
    /\ (VerifyReturned /\ private_key # None)
          => \A kk \in NonceRange(curve) :
                LET step == SignAttempt(curve, private_key[1], call.e, kk)
                IN  (~step.again /\ step.out.exc = "none")
                      => /\ ECDSA_verify(curve, public_key, call.e, step.out.r,
                                         step.out.s, None) = Returned(TRUE)
                         /\ ECDSA_verify(curve, public_key, call.e, step.out.r,
                                         curve.n - step.out.s, None) = Returned(TRUE)
                         /\ curve.n - step.out.s # step.out.s

\* C10 happens: verify has accepted (r, s) under a key of the subgroup, passed
\* as the argument
C10_Witness ==
    /\ VerifyReturned /\ InRange
    /\ call.pk # None /\ call.pk[1] \in Subgroup(curve) /\ ~call.pk[1].infinity
    /\ ret[1] = Returned(TRUE)
    /\ Flipped = Returned(TRUE)

====
